---------------------------- MODULE Spec2Model ----------------------------
(***************************************************************************)
(* A model of the brainfuck compiler: the lexer, the peephole optimiser    *)
(* (group_tokens and cancel_out run to a fixpoint), the assembly           *)
(* generators and the toolchain driver Profile::generate_bin.              *)
(***************************************************************************)
EXTENDS Integers, Sequences, FiniteSets, TLC

(***************************************************************************)
(* Bounds of the model.                                                    *)
(***************************************************************************)
\* longest source text the source provider hands to lex
MaxSrcLen == 5
\* longest token sequence handed directly to optimise_tokens or a generator
MaxToks == 3
\* largest payload of a token handed directly to optimise_tokens
MaxMag == 2
\* width in bits of the model's usize: the machine word scaled down so that
\* wrap-around is a value TLC can hold; sums of a bounded source stay far
\* below 2^UsizeBits, as they stay far below 2^64 in the program
UsizeBits == 5

UsizeMod == 2 ^ UsizeBits
UsizeMax == UsizeMod - 1

(***************************************************************************)
(* Token (lex.rs:1-11).  A token is a tuple: the variant, then its payload *)
(* when the variant has one.                                               *)
(***************************************************************************)
PtrAdd(n) == <<"PtrAdd", n>>
PtrSub(n) == <<"PtrSub", n>>
Add(n) == <<"Add", n>>
Sub(n) == <<"Sub", n>>
LoopStart(n) == <<"LoopStart", n>>
LoopEnd(n) == <<"LoopEnd", n>>
PutChar == <<"PutChar">>
GetChar == <<"GetChar">>

\* Option<Token>: None, or the token itself for Some(token)
None == <<"None">>

Kind(t) == t[1]
Payload(t) == t[2]

\* the characters a source is made of: the eight commands and one other
Chars == {">", "<", "+", "-", "[", "]", ".", ",", "x"}

VARIABLES
    source,          \* lex: the characters of contents consumed so far
    tokens,          \* lex: tokens; then the tokens of the running function
    loop_counter,    \* lex: loop_counter
    active_loops,    \* lex: active_loops, top of the stack last
    pc,              \* where the compiler is
    panic_msg,       \* the message of the panic that ended the run, or ""
    overflow_checks, \* whether the build checks integer overflow
    input,           \* the argument optimise_tokens was called with
    call,            \* which call of optimise_tokens is running (1, 2)
    rounds,          \* rounds of the loop of optimise_tokens started
    idx,             \* position of the for loop of the running function
    accumulator,     \* group_tokens / cancel_out: accumulator
    new_tokens,      \* group_tokens / cancel_out: new_tokens
    grouped,         \* optimise_tokens_inner: the result of group_tokens
    next,            \* optimise_tokens: next
    optimised,       \* what optimise_tokens returned, per call
    generator,       \* which generator ran: "generate_asm", "profile" or ""
    profile,         \* the Profile the generator reads
    lines,           \* generate_asm: lines; a Profile: the texts it returned
    bin_pc,          \* Profile::generate_bin: where it is
    nasm_pc,         \* the spawned assembler: where it is
    ld_pc,           \* the spawned linker: where it is
    cwd_is_cache,    \* whether the working directory is CACHE_PATH
    asm_file,        \* CACHE_PATH/temp.s
    obj_file,        \* CACHE_PATH/temp.o
    out_file,        \* outfile
    nasm_in,         \* what the assembler read
    ld_in            \* what the linker read

optVars == <<input, call, rounds, idx, accumulator, new_tokens, grouped, next,
             optimised>>
genVars == <<generator, profile, lines>>
binVars == <<bin_pc, nasm_pc, ld_pc, cwd_is_cache, asm_file, obj_file,
             out_file, nasm_in, ld_in>>

vars == <<source, tokens, loop_counter, active_loops, pc, panic_msg,
          overflow_checks, optVars, genVars, binVars>>

lexVars == <<source, loop_counter, active_loops>>
passVars == <<idx, accumulator, new_tokens>>

(***************************************************************************)
(* lex (lex.rs:13-43)                                                      *)
(***************************************************************************)
\* the token one command character pushes (lex.rs:21-24, 34-35)
simple_token(c) ==
    CASE c = ">" -> PtrAdd(1)
      [] c = "<" -> PtrSub(1)
      [] c = "+" -> Add(1)
      [] c = "-" -> Sub(1)
      [] c = "." -> PutChar
      [] c = "," -> GetChar

\* a pop from the wrong end of the stack
pop_loop_bottom(stack) == stack[1]

\* active_loops.pop() (lex.rs:31): the id on top of the stack
pop_loop(stack) == stack[Len(stack)]

\* an assertion that checks nothing
lex_assert_none(stack) == TRUE

\* the condition asserted at lex.rs:40
lex_assert(stack) == stack = <<>>

\* the panic of a run: the locals unwind, nothing is returned
Panic(msg) ==
    /\ pc' = "panic"
    /\ panic_msg' = msg

\* one iteration of the for loop over contents.chars() (lex.rs:19-38)
LexChar ==
    /\ pc = "lex"
    /\ Len(source) < MaxSrcLen
    /\ \E c \in Chars :
        /\ source' = Append(source, c)
        /\ IF c = "["
           THEN /\ tokens' = Append(tokens, LoopStart(loop_counter))
                /\ active_loops' = Append(active_loops, loop_counter)
                /\ loop_counter' = loop_counter + 1
                /\ UNCHANGED <<pc, panic_msg>>
           ELSE IF c = "]"
           THEN IF active_loops = <<>>
                THEN /\ Panic("Unmapped loop end")
                     /\ UNCHANGED <<tokens, active_loops, loop_counter>>
                ELSE /\ tokens' = Append(tokens,
                                    LoopEnd(pop_loop(active_loops)))
                     /\ active_loops' = SubSeq(active_loops, 1,
                                               Len(active_loops) - 1)
                     /\ UNCHANGED <<loop_counter, pc, panic_msg>>
           ELSE IF c \in {">", "<", "+", "-", ".", ","}
           THEN /\ tokens' = Append(tokens, simple_token(c))
                /\ UNCHANGED <<active_loops, loop_counter, pc, panic_msg>>
           ELSE UNCHANGED <<tokens, active_loops, loop_counter, pc, panic_msg>>
    /\ UNCHANGED <<genVars, binVars>>
    /\ UNCHANGED <<overflow_checks, input, call, rounds, passVars, grouped,
                   next, optimised>>

\* the end of the text: the assertion and the return (lex.rs:40-42); the
\* returned tokens are handed to optimise_tokens
LexReturn ==
    /\ pc = "lex"
    /\ IF lex_assert(active_loops)
       THEN /\ pc' = "optimise"
            /\ input' = tokens
            /\ call' = 1
            /\ UNCHANGED panic_msg
       ELSE /\ Panic("Unmatched loop start")
            /\ UNCHANGED <<input, call>>
    /\ UNCHANGED <<genVars, binVars>>
    /\ UNCHANGED <<source, tokens, loop_counter, active_loops,
                   overflow_checks, rounds, passVars, grouped, next, optimised>>

(***************************************************************************)
(* usize arithmetic: a + b and a - b wrap modulo 2^w in a build without    *)
(* overflow checks and panic in a build with them.                         *)
(***************************************************************************)
usize_add(a, b) == (a + b) % UsizeMod
usize_sub(a, b) == (a - b) % UsizeMod
add_overflows(a, b) == a + b > UsizeMax
sub_overflows(a, b) == a < b

\* the outcome of one match arm: the new accumulator, what was pushed onto
\* new_tokens, and whether the arm's arithmetic overflowed
Arm(acc, pushed, overflow) == [acc |-> acc, pushed |-> pushed, overflow |-> overflow]

(***************************************************************************)
(* group_tokens (lex.rs:65-89, main.rs:104-128)                            *)
(***************************************************************************)
\* the arm forgetting to push the accumulator
pass_through_drop(token, acc) == Arm(token, <<>>, FALSE)

\* the arm pushing the token and keeping the accumulator
pass_through_swapped(token, acc) == Arm(acc, <<token>>, FALSE)

\* the arm (tok, Some(acc)) of either pass (lex.rs:76-79, 119-122): the
\* accumulator is pushed and the token becomes the accumulator
pass_through(token, acc) == Arm(token, <<acc>>, FALSE)

\* the match of lex.rs:70-81 on (token, accumulator)
group_match(token, acc) ==
    IF acc # None /\ Kind(token) = Kind(acc)
       /\ Kind(token) \in {"PtrAdd", "PtrSub", "Add", "Sub"}
    THEN Arm(<<Kind(token), usize_add(Payload(token), Payload(acc))>>, <<>>,
             add_overflows(Payload(token), Payload(acc)))
    ELSE IF acc # None
    THEN pass_through(token, acc)
    ELSE Arm(token, <<>>, FALSE)

(***************************************************************************)
(* cancel_out (lex.rs:91-132)                                              *)
(***************************************************************************)
\* the arms of lex.rs:98-102 and 108-112: the token adds (kind up), the
\* accumulator subtracts (kind down); a is the token's payload, b the
\* accumulator's
cancel_add_sub(up, down, a, b) ==
    IF a < b THEN Arm(<<up, usize_sub(a, b)>>, <<>>, sub_overflows(a, b))
    ELSE IF a = b THEN Arm(None, <<>>, FALSE)
    ELSE Arm(<<down, usize_sub(b, a)>>, <<>>, sub_overflows(b, a))

\* the arms of lex.rs:103-107 and 113-117: the token subtracts (kind down),
\* the accumulator adds (kind up)
cancel_sub_add(up, down, a, b) ==
    IF a < b THEN Arm(<<up, usize_sub(b, a)>>, <<>>, sub_overflows(b, a))
    ELSE IF a = b THEN Arm(None, <<>>, FALSE)
    ELSE Arm(<<down, usize_sub(a, b)>>, <<>>, sub_overflows(a, b))

\* the match of lex.rs:97-124 on (token, accumulator)
cancel_match(token, acc) ==
    IF acc = None THEN Arm(token, <<>>, FALSE)
    ELSE IF Kind(token) = "PtrAdd" /\ Kind(acc) = "PtrSub"
    THEN cancel_add_sub("PtrAdd", "PtrSub", Payload(token), Payload(acc))
    ELSE IF Kind(token) = "PtrSub" /\ Kind(acc) = "PtrAdd"
    THEN cancel_sub_add("PtrAdd", "PtrSub", Payload(token), Payload(acc))
    ELSE IF Kind(token) = "Add" /\ Kind(acc) = "Sub"
    THEN cancel_add_sub("Add", "Sub", Payload(token), Payload(acc))
    ELSE IF Kind(token) = "Sub" /\ Kind(acc) = "Add"
    THEN cancel_sub_add("Add", "Sub", Payload(token), Payload(acc))
    ELSE pass_through(token, acc)

\* the flush after either pass's loop (lex.rs:84-88, 127-131)
flush(acc, out) == IF acc # None THEN Append(out, acc) ELSE out

(***************************************************************************)
(* optimise_tokens (lex.rs:45-55) and optimise_tokens_inner (lex.rs:57-63) *)
(***************************************************************************)
\* one iteration of a pass's for loop, given the outcome of its match
PassStep(arm) ==
    IF arm.overflow /\ overflow_checks
    THEN /\ Panic("attempt to add or subtract with overflow")
         /\ UNCHANGED passVars
    ELSE /\ accumulator' = arm.acc
         /\ new_tokens' = new_tokens \o arm.pushed
         /\ idx' = idx + 1
         /\ UNCHANGED <<pc, panic_msg>>

\* the top of the loop: optimise_tokens_inner is entered, group_tokens starts
OptimiseLoop ==
    /\ pc = "optimise"
    /\ pc' = "group"
    /\ rounds' = rounds + 1
    /\ idx' = 1
    /\ accumulator' = None
    /\ new_tokens' = <<>>
    /\ UNCHANGED <<genVars, binVars>>
    /\ UNCHANGED <<lexVars, tokens, panic_msg, overflow_checks, input, call,
                   grouped, next, optimised>>

GroupTokensStep ==
    /\ pc = "group"
    /\ idx <= Len(tokens)
    /\ PassStep(group_match(tokens[idx], accumulator))
    /\ UNCHANGED <<genVars, binVars>>
    /\ UNCHANGED <<lexVars, tokens, overflow_checks, input, call, rounds,
                   grouped, next, optimised>>

\* group_tokens returns and cancel_out starts on its result
GroupTokensReturn ==
    /\ pc = "group"
    /\ idx > Len(tokens)
    /\ grouped' = flush(accumulator, new_tokens)
    /\ pc' = "cancel"
    /\ idx' = 1
    /\ accumulator' = None
    /\ new_tokens' = <<>>
    /\ UNCHANGED <<genVars, binVars>>
    /\ UNCHANGED <<lexVars, tokens, panic_msg, overflow_checks, input, call,
                   rounds, next, optimised>>

CancelOutStep ==
    /\ pc = "cancel"
    /\ idx <= Len(grouped)
    /\ PassStep(cancel_match(grouped[idx], accumulator))
    /\ UNCHANGED <<genVars, binVars>>
    /\ UNCHANGED <<lexVars, tokens, overflow_checks, input, call, rounds,
                   grouped, next, optimised>>

\* cancel_out returns: its result is next
CancelOutReturn ==
    /\ pc = "cancel"
    /\ idx > Len(grouped)
    /\ next' = flush(accumulator, new_tokens)
    /\ pc' = "compare"
    /\ UNCHANGED <<genVars, binVars>>
    /\ UNCHANGED <<lexVars, tokens, panic_msg, overflow_checks, input, call,
                   rounds, passVars, grouped, optimised>>

\* a single round, whatever it produced
is_fixpoint_always(nxt, toks) == TRUE

\* should the loop of optimise_tokens return next (lex.rs:50)
is_fixpoint(nxt, toks) == nxt = toks

\* the test of lex.rs:50-53
OptimiseCompare ==
    /\ pc = "compare"
    /\ IF is_fixpoint(next, tokens)
       THEN /\ optimised' = Append(optimised, next)
            /\ pc' = "optimised"
            /\ UNCHANGED tokens
       ELSE /\ tokens' = next
            /\ pc' = "optimise"
            /\ UNCHANGED optimised
    /\ UNCHANGED <<genVars, binVars>>
    /\ UNCHANGED <<lexVars, panic_msg, overflow_checks, input, call, rounds,
                   passVars, grouped, next>>

(***************************************************************************)
(* Text.  A String is a sequence of pieces of text; a piece is never split *)
(* or matched inside, so the placeholder "{}" of a template is a piece of  *)
(* its own.                                                                *)
(***************************************************************************)
digit(d) == <<"0", "1", "2", "3", "4", "5", "6", "7", "8", "9">>[d + 1]

\* n.to_string(), and what format! writes for {} (decimal digits)
RECURSIVE to_string(_)
to_string(n) ==
    IF n < 10 THEN <<digit(n)>>
    ELSE to_string(n \div 10) \o <<digit(n % 10)>>

\* strs.join("\n")
RECURSIVE join(_)
join(strs) ==
    IF strs = <<>> THEN <<>>
    ELSE IF Len(strs) = 1 THEN strs[1]
    ELSE strs[1] \o <<"\n">> \o join(Tail(strs))

\* text.replace("{}", with): every placeholder is replaced
RECURSIVE replace(_, _)
replace(text, with) ==
    IF text = <<>> THEN <<>>
    ELSE (IF Head(text) = "{}" THEN with ELSE <<Head(text)>>)
         \o replace(Tail(text), with)

(***************************************************************************)
(* generate_asm (main.rs:138-194)                                          *)
(***************************************************************************)
\* main.rs:139-146
setup_lines ==
    << <<"SECTION .bss">>,
       <<"\tbuf_start: resb 40000000 ; allocate buffer">>,
       <<"SECTION .text">>,
       <<"global _start">>,
       <<"_start:">>,
       <<"\tmov edi, buf_start ; end of boilerplate">> >>

\* main.rs:187-191
teardown_lines ==
    << <<"\tmov ebx, 0 ; return status 0">>,
       <<"\tmov eax, 1 ; invoke SYS_EXIT">>,
       <<"\tint 80h">> >>

\* the lines of the loop start and the loop end (main.rs:156-165)
loop_start_lines(id) ==
    << <<"\tcmp byte [edi], 0">>,
       <<"\tjz lbl_e_">> \o to_string(id),
       <<"lbl_s_">> \o to_string(id) \o <<":">> >>

loop_end_lines(id) ==
    << <<"\tcmp byte [edi], 0">>,
       <<"\tjnz lbl_s_">> \o to_string(id),
       <<"lbl_e_">> \o to_string(id) \o <<":">> >>

\* the match of main.rs:149-184: the lines one token pushes
token_lines(token) ==
    CASE Kind(token) = "PtrAdd" ->
           << <<"\tadd edi, ">> \o to_string(Payload(token)) >>
      [] Kind(token) = "PtrSub" ->
           << <<"\tsub edi, ">> \o to_string(Payload(token)) >>
      [] Kind(token) = "Add" ->
           << <<"\tadd byte [edi], ">> \o to_string(Payload(token)) >>
      [] Kind(token) = "Sub" ->
           << <<"\tsub byte [edi], ">> \o to_string(Payload(token)) >>
      [] Kind(token) = "LoopStart" -> loop_start_lines(Payload(token))
      [] Kind(token) = "LoopEnd" -> loop_end_lines(Payload(token))
      [] Kind(token) = "PutChar" ->
           << <<"\tmov eax, 0">>, <<"\tmov al, [edi]">>, <<"\tpush eax">>,
              <<"\tmov eax, 4">>, <<"\tmov ebx, 1">>, <<"\tmov ecx, esp">>,
              <<"\tmov edx, 1">>, <<"\tint 80h">> >>
      [] Kind(token) = "GetChar" ->
           << <<"\tmov edx, 1">>, <<"\tmov ecx, edi">>, <<"\tmov ebx, 0">>,
              <<"\tmov eax, 3">>, <<"\tint 80h">> >>

\* generate_asm is called with what optimise_tokens returned (main.rs:224)
\* and starts from the setup lines
GenerateAsmSetup ==
    /\ pc = "optimised"
    /\ call = 1
    /\ tokens' = optimised[1]
    /\ lines' = setup_lines
    /\ idx' = 1
    /\ generator' = "generate_asm"
    /\ pc' = "generate"
    /\ UNCHANGED <<lexVars, panic_msg, overflow_checks, input, call, rounds,
                   accumulator, new_tokens, grouped, next, optimised,
                   profile, binVars>>

\* one iteration of the for loop of main.rs:148-185
GenerateAsmToken ==
    /\ pc = "generate"
    /\ idx <= Len(tokens)
    /\ lines' = lines \o token_lines(tokens[idx])
    /\ idx' = idx + 1
    /\ UNCHANGED <<lexVars, tokens, pc, panic_msg, overflow_checks, input,
                   call, rounds, accumulator, new_tokens, grouped, next,
                   optimised, generator, profile, binVars>>

\* the teardown lines and the return (main.rs:187-193)
GenerateAsmReturn ==
    /\ pc = "generate"
    /\ idx > Len(tokens)
    /\ lines' = lines \o teardown_lines
    /\ pc' = "done"
    /\ UNCHANGED <<lexVars, tokens, panic_msg, overflow_checks, optVars,
                   generator, profile, binVars>>

(***************************************************************************)
(* Profile (profile.rs:41-82)                                              *)
(***************************************************************************)
\* no Profile chosen
NoProfile == [name |-> ""]

\* the templates of two profiles (the toolchain fields play no part in
\* generation): one with a placeholder in every payload's template, one
\* with templates of several lines, none or two placeholders, and a
\* placeholder in the template of a token without payload
Profiles ==
    { [name |-> "plain",
       setup |-> << <<"S">> >>, teardown |-> << <<"T">> >>,
       ptradd |-> << <<"RIGHT ", "{}">> >>, ptrsub |-> << <<"LEFT ", "{}">> >>,
       add |-> << <<"ADD ", "{}">> >>, sub |-> << <<"SUB ", "{}">> >>,
       loopstart |-> << <<"jz e", "{}">>, <<"s", "{}", ":">> >>,
       loopend |-> << <<"jnz s", "{}">>, <<"e", "{}", ":">> >>,
       putchar |-> << <<"OUT">> >>, getchar |-> << <<"IN">> >>],
      [name |-> "odd",
       setup |-> << <<"S1">>, <<"S2">> >>, teardown |-> <<>>,
       ptradd |-> << <<"{}", " > ", "{}">> >>, ptrsub |-> << <<"LEFT">> >>,
       add |-> << <<"INC">> >>, sub |-> << <<"mov al, ", "{}">>, <<"SUB">> >>,
       loopstart |-> << <<"[">> >>, loopend |-> << <<"]", "{}">> >>,
       putchar |-> << <<"OUT ", "{}">> >>, getchar |-> <<>>] }

\* Profile::get_setup_asm (profile.rs:63-65)
get_setup_asm(p) == join(p.setup)

\* Profile::get_teardown_asm (profile.rs:67-69)
get_teardown_asm(p) == join(p.teardown)

\* get_asm that substitutes nothing into the template of a LoopEnd
get_asm_loopend_verbatim(p, tok) ==
    CASE Kind(tok) = "PtrAdd" -> replace(join(p.ptradd), to_string(Payload(tok)))
      [] Kind(tok) = "PtrSub" -> replace(join(p.ptrsub), to_string(Payload(tok)))
      [] Kind(tok) = "Add" -> replace(join(p.add), to_string(Payload(tok)))
      [] Kind(tok) = "Sub" -> replace(join(p.sub), to_string(Payload(tok)))
      [] Kind(tok) = "LoopStart" ->
           replace(join(p.loopstart), to_string(Payload(tok)))
      [] Kind(tok) = "LoopEnd" -> join(p.loopend)
      [] Kind(tok) = "PutChar" -> join(p.putchar)
      [] Kind(tok) = "GetChar" -> join(p.getchar)

\* Profile::get_asm (profile.rs:71-82)
get_asm(p, tok) ==
    CASE Kind(tok) = "PtrAdd" -> replace(join(p.ptradd), to_string(Payload(tok)))
      [] Kind(tok) = "PtrSub" -> replace(join(p.ptrsub), to_string(Payload(tok)))
      [] Kind(tok) = "Add" -> replace(join(p.add), to_string(Payload(tok)))
      [] Kind(tok) = "Sub" -> replace(join(p.sub), to_string(Payload(tok)))
      [] Kind(tok) = "LoopStart" ->
           replace(join(p.loopstart), to_string(Payload(tok)))
      [] Kind(tok) = "LoopEnd" ->
           replace(join(p.loopend), to_string(Payload(tok)))
      [] Kind(tok) = "PutChar" -> join(p.putchar)
      [] Kind(tok) = "GetChar" -> join(p.getchar)

\* the texts the methods of a Profile return for what optimise_tokens
\* returned: get_setup_asm, get_asm of every token, get_teardown_asm
ProfileGetAsm ==
    /\ pc = "optimised"
    /\ call = 1
    /\ \E p \in Profiles :
        /\ profile' = p
        /\ lines' = [setup |-> get_setup_asm(p),
                     blocks |-> [i \in 1..Len(optimised[1]) |->
                                    get_asm(p, optimised[1][i])],
                     teardown |-> get_teardown_asm(p)]
    /\ tokens' = optimised[1]
    /\ generator' = "profile"
    /\ pc' = "done"
    /\ UNCHANGED <<lexVars, panic_msg, overflow_checks, optVars, binVars>>

(***************************************************************************)
(* Profile::generate_bin (profile.rs:84-108) and Profile::write_asm        *)
(* (profile.rs:110-115), with the two processes it spawns                  *)
(***************************************************************************)
Absent == <<"absent">>
Partial == <<"partial">>
TextFile(text) == <<"text", text>>
ObjFile(text) == <<"obj", text>>
BinFile(obj) == <<"bin", obj>>

compilerVars == <<source, tokens, loop_counter, active_loops, pc, panic_msg,
                  overflow_checks, optVars, genVars>>

\* Self::write_asm(asm, &asm_path)? (profile.rs:87, 110-115)
WriteAsm ==
    /\ bin_pc = "write_asm"
    /\ \/ /\ asm_file' = TextFile(lines)
          /\ bin_pc' = "spawn_nasm"
       \/ /\ bin_pc' = "err"
          /\ UNCHANGED asm_file
    /\ UNCHANGED <<compilerVars, nasm_pc, ld_pc, cwd_is_cache, obj_file,
                   out_file, nasm_in, ld_in>>

\* Command::new("nasm") ... cmd.spawn()? (profile.rs:92-96): the child
\* runs on its own, spawn does not wait for it
SpawnNasm ==
    /\ bin_pc = "spawn_nasm"
    /\ \/ /\ nasm_pc' = "spawned"
          /\ bin_pc' = "spawn_ld"
       \/ /\ bin_pc' = "err"
          /\ UNCHANGED nasm_pc
    /\ UNCHANGED <<compilerVars, ld_pc, cwd_is_cache, asm_file, obj_file,
                   out_file, nasm_in, ld_in>>

\* Command::new(self.linker) ... cmd.spawn()? (profile.rs:98-102)
SpawnLd ==
    /\ bin_pc = "spawn_ld"
    /\ \/ /\ ld_pc' = "spawned"
          /\ bin_pc' = "remove_asm"
       \/ /\ bin_pc' = "err"
          /\ UNCHANGED ld_pc
    /\ UNCHANGED <<compilerVars, nasm_pc, cwd_is_cache, asm_file, obj_file,
                   out_file, nasm_in, ld_in>>

\* fs::remove_file(asm_path)? (profile.rs:104)
RemoveAsm ==
    /\ bin_pc = "remove_asm"
    /\ IF asm_file = Absent
       THEN /\ bin_pc' = "err"
            /\ UNCHANGED asm_file
       ELSE /\ asm_file' = Absent
            /\ bin_pc' = "remove_obj"
    /\ UNCHANGED <<compilerVars, nasm_pc, ld_pc, cwd_is_cache, obj_file,
                   out_file, nasm_in, ld_in>>

\* fs::remove_file(obj_path)?; Ok(()) (profile.rs:105-107)
RemoveObj ==
    /\ bin_pc = "remove_obj"
    /\ IF obj_file = Absent
       THEN /\ bin_pc' = "err"
            /\ UNCHANGED obj_file
       ELSE /\ obj_file' = Absent
            /\ bin_pc' = "ok"
    /\ UNCHANGED <<compilerVars, nasm_pc, ld_pc, cwd_is_cache, asm_file,
                   out_file, nasm_in, ld_in>>

\* the assembler opens its input, the relative path temp.s (profile.rs:95):
\* it is CACHE_PATH/temp.s only when the working directory is CACHE_PATH
NasmOpen ==
    /\ nasm_pc = "spawned"
    /\ IF cwd_is_cache /\ asm_file # Absent
       THEN /\ nasm_in' = asm_file[2]
            /\ nasm_pc' = "assembling"
       ELSE /\ nasm_pc' = "failed"
            /\ UNCHANGED nasm_in
    /\ UNCHANGED <<compilerVars, bin_pc, ld_pc, cwd_is_cache, asm_file,
                   obj_file, out_file, ld_in>>

\* the assembler creates its output, -o obj_path (profile.rs:94)
NasmCreateObj ==
    /\ nasm_pc = "assembling"
    /\ obj_file' = Partial
    /\ nasm_pc' = "writing"
    /\ UNCHANGED <<compilerVars, bin_pc, ld_pc, cwd_is_cache, asm_file,
                   out_file, nasm_in, ld_in>>

\* the assembler finishes writing and exits; a file unlinked meanwhile
\* stays unlinked
NasmExit ==
    /\ nasm_pc = "writing"
    /\ obj_file' = IF obj_file = Partial THEN ObjFile(nasm_in) ELSE obj_file
    /\ nasm_pc' = "exited"
    /\ UNCHANGED <<compilerVars, bin_pc, ld_pc, cwd_is_cache, asm_file,
                   out_file, nasm_in, ld_in>>

\* the linker opens its input, obj_path (profile.rs:101): a missing or
\* half-written object file makes it fail
LdOpen ==
    /\ ld_pc = "spawned"
    /\ IF obj_file # Absent /\ obj_file # Partial
       THEN /\ ld_in' = obj_file
            /\ ld_pc' = "linking"
       ELSE /\ ld_pc' = "failed"
            /\ UNCHANGED ld_in
    /\ UNCHANGED <<compilerVars, bin_pc, nasm_pc, cwd_is_cache, asm_file,
                   obj_file, out_file, nasm_in>>

\* the linker writes its output, -o outfile (profile.rs:100), and exits
LdExit ==
    /\ ld_pc = "linking"
    /\ out_file' = BinFile(ld_in)
    /\ ld_pc' = "exited"
    /\ UNCHANGED <<compilerVars, bin_pc, nasm_pc, cwd_is_cache, asm_file,
                   obj_file, nasm_in, ld_in>>

(***************************************************************************)
(* The specifications                                                      *)
(***************************************************************************)
\* the token sequences handed directly to optimise_tokens or a generator
LoopIds == {0, 1}
TokenPool ==
    {<<k, n>> : k \in {"PtrAdd", "PtrSub", "Add", "Sub"}, n \in 1..MaxMag}
    \cup {<<k, i>> : k \in {"LoopStart", "LoopEnd"}, i \in LoopIds}
    \cup {PutChar, GetChar}
TokenSeqs == UNION {[1..n -> TokenPool] : n \in 0..MaxToks}

\* lex has not been called
LexIdle ==
    /\ source = <<>>
    /\ loop_counter = 0
    /\ active_loops = <<>>
    /\ panic_msg = ""

\* no pass is running
PassIdle ==
    /\ rounds = 0
    /\ idx = 0
    /\ accumulator = None
    /\ new_tokens = <<>>
    /\ grouped = <<>>
    /\ next = <<>>

\* no generator has run
GenIdle ==
    /\ generator = ""
    /\ profile = NoProfile
    /\ lines = <<>>

\* generate_bin has not been called
BinIdle ==
    /\ bin_pc = "idle"
    /\ nasm_pc = "unspawned"
    /\ ld_pc = "unspawned"
    /\ cwd_is_cache = FALSE
    /\ asm_file = Absent
    /\ obj_file = Absent
    /\ out_file = Absent
    /\ nasm_in = <<>>
    /\ ld_in = <<>>

\* the compiler: a source is lexed, optimised and generated from
Init ==
    /\ LexIdle /\ PassIdle /\ GenIdle /\ BinIdle
    /\ tokens = <<>>
    /\ pc = "lex"
    /\ overflow_checks \in BOOLEAN
    /\ input = <<>>
    /\ call = 0
    /\ optimised = <<>>

Next ==
    \/ LexChar
    \/ LexReturn
    \/ OptimiseLoop
    \/ GroupTokensStep
    \/ GroupTokensReturn
    \/ CancelOutStep
    \/ CancelOutReturn
    \/ OptimiseCompare
    \/ GenerateAsmSetup
    \/ GenerateAsmToken
    \/ GenerateAsmReturn
    \/ ProfileGetAsm

Spec == Init /\ [][Next]_vars

\* lex alone
NextLex == LexChar \/ LexReturn

SpecLex == Init /\ [][NextLex]_vars

\* optimise_tokens on a token sequence, then once more on what it returned
InitOpt ==
    /\ LexIdle /\ PassIdle /\ GenIdle /\ BinIdle
    /\ tokens \in TokenSeqs
    /\ input = tokens
    /\ pc = "optimise"
    /\ overflow_checks \in BOOLEAN
    /\ call = 1
    /\ optimised = <<>>

\* optimise_tokens is called on what it returned
Reoptimise ==
    /\ pc = "optimised"
    /\ call = 1
    /\ call' = 2
    /\ tokens' = optimised[1]
    /\ input' = optimised[1]
    /\ rounds' = 0
    /\ pc' = "optimise"
    /\ UNCHANGED <<lexVars, panic_msg, overflow_checks, passVars, grouped,
                   next, optimised, genVars, binVars>>

NextOpt ==
    \/ OptimiseLoop
    \/ GroupTokensStep
    \/ GroupTokensReturn
    \/ CancelOutStep
    \/ CancelOutReturn
    \/ OptimiseCompare
    \/ Reoptimise

SpecOpt == InitOpt /\ [][NextOpt]_vars

\* the generators on a token sequence
InitGen ==
    /\ LexIdle /\ PassIdle /\ GenIdle /\ BinIdle
    /\ \E ir \in TokenSeqs :
        /\ optimised = <<ir>>
        /\ input = ir
        /\ tokens = ir
    /\ pc = "optimised"
    /\ overflow_checks \in BOOLEAN
    /\ call = 1

NextGen ==
    \/ GenerateAsmSetup
    \/ GenerateAsmToken
    \/ GenerateAsmReturn
    \/ ProfileGetAsm

SpecGen == InitGen /\ [][NextGen]_vars

\* the assembly texts handed to generate_bin
AsmTexts == {setup_lines \o teardown_lines,
             setup_lines \o token_lines(Add(1)) \o teardown_lines}

\* Profile::generate_bin on an assembly text
InitBin ==
    /\ LexIdle /\ PassIdle
    /\ tokens = <<>>
    /\ input = <<>>
    /\ pc = "done"
    /\ overflow_checks = FALSE
    /\ call = 1
    /\ optimised = <<>>
    /\ generator = "generate_asm"
    /\ profile = NoProfile
    /\ lines \in AsmTexts
    /\ bin_pc = "write_asm"
    /\ nasm_pc = "unspawned"
    /\ ld_pc = "unspawned"
    /\ cwd_is_cache \in BOOLEAN
    /\ asm_file = Absent
    /\ obj_file = Absent
    /\ out_file = Absent
    /\ nasm_in = <<>>
    /\ ld_in = <<>>

NextBin ==
    \/ WriteAsm
    \/ SpawnNasm
    \/ SpawnLd
    \/ RemoveAsm
    \/ RemoveObj
    \/ NasmOpen
    \/ NasmCreateObj
    \/ NasmExit
    \/ LdOpen
    \/ LdExit

SpecBin == InitBin /\ [][NextBin]_vars

(***************************************************************************)
(* group_tokens, cancel_out, optimise_tokens_inner and optimise_tokens as  *)
(* functions: the value each returns in a run in which no arithmetic       *)
(* panics (the folds of the same matches the actions step through).        *)
(***************************************************************************)
RECURSIVE group_fold(_, _, _)
group_fold(toks, acc, out) ==
    IF toks = <<>> THEN flush(acc, out)
    ELSE LET arm == group_match(Head(toks), acc)
         IN group_fold(Tail(toks), arm.acc, out \o arm.pushed)

group_tokens(toks) == group_fold(toks, None, <<>>)

RECURSIVE cancel_fold(_, _, _)
cancel_fold(toks, acc, out) ==
    IF toks = <<>> THEN flush(acc, out)
    ELSE LET arm == cancel_match(Head(toks), acc)
         IN cancel_fold(Tail(toks), arm.acc, out \o arm.pushed)

cancel_out(toks) == cancel_fold(toks, None, <<>>)

optimise_tokens_inner(toks) == cancel_out(group_tokens(toks))

RECURSIVE optimise_tokens(_)
optimise_tokens(toks) ==
    LET nxt == optimise_tokens_inner(toks)
    IN IF is_fixpoint(nxt, toks) THEN nxt ELSE optimise_tokens(nxt)

(***************************************************************************)
(* The claims                                                              *)
(***************************************************************************)
MagKinds == {"PtrAdd", "PtrSub", "Add", "Sub"}
BoundaryKinds == {"LoopStart", "LoopEnd", "PutChar", "GetChar"}
IsMag(t) == Kind(t) \in MagKinds
IsBoundary(t) == Kind(t) \in BoundaryKinds

\* the concatenation of a sequence of sequences
RECURSIVE Flatten(_)
Flatten(ss) == IF ss = <<>> THEN <<>> ELSE Head(ss) \o Flatten(Tail(ss))

\* ---- C1 ----
\* an inverse pair on one axis, in either order
InversePair(t, p) ==
    /\ p # None
    /\ <<Kind(t), Kind(p)>> \in {<<"PtrAdd", "PtrSub">>, <<"PtrSub", "PtrAdd">>,
                                <<"Add", "Sub">>, <<"Sub", "Add">>}

\* what an inverse pair combines to: nothing when the magnitudes are equal,
\* else the kind of the larger magnitude with the difference
Combined(t, p) ==
    IF Payload(t) = Payload(p) THEN None
    ELSE IF Payload(t) > Payload(p)
    THEN <<Kind(t), Payload(t) - Payload(p)>>
    ELSE <<Kind(p), Payload(p) - Payload(t)>>

\* C1: whenever cancel_out meets an incoming token and a pending token that
\* are an inverse pair on one axis, with magnitudes a, b >= 1, the new
\* pending value is empty when a = b and otherwise one token of the kind
\* with the larger magnitude, of magnitude the larger minus the smaller.
C1_CancelCombines ==
    [][(/\ pc = "cancel"
        /\ idx <= Len(grouped)
        /\ InversePair(grouped[idx], accumulator)
        /\ Payload(grouped[idx]) >= 1
        /\ Payload(accumulator) >= 1)
       => accumulator' = Combined(grouped[idx], accumulator)]_vars

\* ---- C2 ----
\* C2: the optimiser has no error outcome: once lex has returned no step of
\* group_tokens or cancel_out aborts, and no subtraction of cancel_out goes
\* below zero.
C2_OptimiserTotal ==
    /\ call >= 1 => pc # "panic"
    /\ (pc = "cancel" /\ idx <= Len(grouped))
         => ~cancel_match(grouped[idx], accumulator).overflow

\* ---- C3 ----
Boundaries(s) == SelectSeq(s, IsBoundary)

FirstBoundary(s) ==
    CHOOSE i \in 1..Len(s) :
        IsBoundary(s[i]) /\ \A j \in 1..(i - 1) : ~IsBoundary(s[j])

\* each stretch between boundary tokens optimised on its own, the boundary
\* tokens left where they are
RECURSIVE PerSegment(_)
PerSegment(s) ==
    IF \A i \in 1..Len(s) : ~IsBoundary(s[i]) THEN optimise_tokens(s)
    ELSE LET i == FirstBoundary(s)
         IN optimise_tokens(SubSeq(s, 1, i - 1)) \o <<s[i]>>
                \o PerSegment(SubSeq(s, i + 1, Len(s)))

\* C3: optimise_tokens leaves the boundary tokens untouched: the LoopStart,
\* LoopEnd, PutChar and GetChar tokens of the output are those of the input,
\* in order, each pass keeps them, and nothing is combined across one: the
\* output is the input's stretches between boundary tokens, each optimised
\* on its own, with the boundary tokens between them.
C3_BoundariesKept ==
    /\ pc \in {"cancel", "compare"} => Boundaries(grouped) = Boundaries(tokens)
    /\ pc = "compare" => Boundaries(next) = Boundaries(grouped)
    /\ pc = "optimised" =>
         /\ Boundaries(optimised[call]) = Boundaries(input)
         /\ optimised[call] = PerSegment(input)

\* "+.+" has been optimised, to [Add(1), PutChar, Add(1)]
C3_Witness ==
    /\ pc = "optimised"
    /\ input = <<Add(1), PutChar, Add(1)>>
    /\ optimised[call] = <<Add(1), PutChar, Add(1)>>

\* ---- C4 ----
NumOf(s, i, k) == Cardinality({j \in 1..i : Kind(s[j]) = k})

\* loops open after the first i tokens
Depth(s, i) == NumOf(s, i, "LoopStart") - NumOf(s, i, "LoopEnd")

\* the most recently opened loop that is not closed before position j
Opener(s, j) ==
    CHOOSE i \in 1..(j - 1) :
        /\ Kind(s[i]) = "LoopStart"
        /\ Depth(s, i - 1) = Depth(s, j)
        /\ \A m \in (i + 1)..(j - 1) :
             ~(Kind(s[m]) = "LoopStart" /\ Depth(s, m - 1) = Depth(s, j))

LoopInvariant(s) ==
    /\ \A i \in 1..Len(s) : Depth(s, i) >= 0
    /\ Depth(s, Len(s)) = 0
    /\ \A i \in 1..Len(s) :
         Kind(s[i]) = "LoopStart" =>
           /\ Payload(s[i]) = NumOf(s, i - 1, "LoopStart")
           /\ Cardinality({j \in 1..Len(s) : s[j] = LoopEnd(Payload(s[i]))}) = 1
           /\ \E j \in (i + 1)..Len(s) : s[j] = LoopEnd(Payload(s[i]))
    /\ \A j \in 1..Len(s) :
         Kind(s[j]) = "LoopEnd" =>
           /\ \E i \in 1..(j - 1) :
                Kind(s[i]) = "LoopStart" /\ Depth(s, i - 1) = Depth(s, j)
           /\ Payload(s[j]) = Payload(s[Opener(s, j)])

\* C4: what lex returns satisfies the loop invariant: every LoopStart(id) is
\* followed by exactly one LoopEnd(id), the loop tokens nest properly (each
\* LoopEnd carries the id of the most recently opened unclosed LoopStart)
\* and the ids are 0, 1, 2, ... in the order of the LoopStarts; "[[-]]"
\* gives LoopStart(0), LoopStart(1), Sub(1), LoopEnd(1), LoopEnd(0).
C4_LoopInvariant ==
    /\ call >= 1 => LoopInvariant(input)
    /\ (call >= 1 /\ source = <<"[", "[", "-", "]", "]">>) =>
         input = <<LoopStart(0), LoopStart(1), Sub(1), LoopEnd(1), LoopEnd(0)>>

\* lex has returned the tokens of "[[-]]"
C4_Witness ==
    /\ call >= 1
    /\ source = <<"[", "[", "-", "]", "]">>
    /\ input = <<LoopStart(0), LoopStart(1), Sub(1), LoopEnd(1), LoopEnd(0)>>

\* ---- C5 ----
Count(s, c) == Cardinality({i \in 1..Len(s) : s[i] = c})
Overclosed(s) == Count(s, "]") > Count(s, "[")
HasOverclosedPrefix(s) == \E n \in 0..Len(s) : Overclosed(SubSeq(s, 1, n))

\* C5: lex fails with the unmatched-loop-end error exactly when a prefix of
\* the source holds more ']' than '[', at the first such ']' and without
\* reading on; with the unmatched-loop-start error exactly when no prefix
\* does and the source holds more '[' than ']'; else it returns the tokens;
\* a failure returns nothing.
C5_LexErrors ==
    /\ panic_msg = "Unmapped loop end" <=> HasOverclosedPrefix(source)
    /\ HasOverclosedPrefix(source) =>
         /\ pc = "panic"
         /\ \A n \in 0..(Len(source) - 1) : ~Overclosed(SubSeq(source, 1, n))
    /\ pc = "lex" => panic_msg = ""
    /\ pc # "lex" =>
         /\ panic_msg = "Unmatched loop start"
              <=> (/\ ~HasOverclosedPrefix(source)
                   /\ Count(source, "[") > Count(source, "]"))
         /\ (/\ ~HasOverclosedPrefix(source)
             /\ Count(source, "[") = Count(source, "]"))
              => (pc # "panic" /\ call = 1 /\ input = tokens)
    /\ pc = "panic" => (call = 0 /\ input = <<>> /\ optimised = <<>>)

\* lex has failed at a ']' that closes nothing, after a loop that was closed
C5_Witness ==
    /\ pc = "panic"
    /\ panic_msg = "Unmapped loop end"
    /\ Count(source, "[") >= 1

\* ---- C6 ----
\* C6: optimise_tokens is idempotent: called on what it returned, it does
\* not abort, finds the fixpoint in its first round and returns the same
\* sequence.
C6_Idempotent ==
    call = 2 =>
        /\ pc # "panic"
        /\ rounds <= 1
        /\ pc = "compare" => next = tokens
        /\ pc = "optimised" => optimised[2] = optimised[1]

\* the second call has returned a sequence of two tokens or more
C6_Witness ==
    /\ call = 2
    /\ pc = "optimised"
    /\ Len(optimised[2]) >= 2

\* ---- C7 ----
\* C7: each round of optimise_tokens produces a sequence strictly shorter
\* than the round's input or equal to it, the loop starts at most
\* (input length + 1) rounds, and a call that has neither returned nor
\* panicked can always take its next step.
C7_RoundsShrink ==
    /\ pc = "compare" => (Len(next) < Len(tokens) \/ next = tokens)
    /\ rounds <= Len(input) + 1
    /\ pc \in {"optimise", "group", "cancel", "compare"} => ENABLED NextOpt

\* a call has returned in its third round, after two rounds that shortened
C7_Witness ==
    /\ pc = "optimised"
    /\ rounds = 3
    /\ Len(optimised[call]) < Len(input)

\* ---- C8 ----
\* the length of the maximal run of tokens of the first token's kind
RECURSIVE RunLen(_)
RunLen(s) ==
    IF Len(s) >= 2 /\ Kind(s[2]) = Kind(s[1]) THEN 1 + RunLen(Tail(s)) ELSE 1

RECURSIVE PayloadSum(_)
PayloadSum(s) == IF s = <<>> THEN 0 ELSE Payload(Head(s)) + PayloadSum(Tail(s))

\* every maximal run of one magnitude-bearing kind replaced by one token of
\* that kind with the sum of the run's magnitudes
RECURSIVE FuseRuns(_)
FuseRuns(s) ==
    IF s = <<>> THEN <<>>
    ELSE IF IsMag(s[1])
    THEN LET n == RunLen(s)
         IN <<<<Kind(s[1]), PayloadSum(SubSeq(s, 1, n))>>>>
                \o FuseRuns(SubSeq(s, n + 1, Len(s)))
    ELSE <<s[1]>> \o FuseRuns(Tail(s))

\* C8: group_tokens replaces every maximal run of adjacent tokens of one
\* magnitude-bearing kind by one token of that kind whose magnitude is the
\* sum of the run's magnitudes and leaves every other token in place, so no
\* two adjacent tokens of its output have the same magnitude-bearing kind.
C8_GroupFusesRuns ==
    pc \in {"cancel", "compare"} =>
        /\ grouped = FuseRuns(tokens)
        /\ \A i \in 1..(Len(grouped) - 1) :
             IsMag(grouped[i]) => Kind(grouped[i]) # Kind(grouped[i + 1])

\* ---- C9 ----
\* the template of a token's kind in a Profile
TemplateOf(p, tok) ==
    CASE Kind(tok) = "PtrAdd" -> p.ptradd
      [] Kind(tok) = "PtrSub" -> p.ptrsub
      [] Kind(tok) = "Add" -> p.add
      [] Kind(tok) = "Sub" -> p.sub
      [] Kind(tok) = "LoopStart" -> p.loopstart
      [] Kind(tok) = "LoopEnd" -> p.loopend
      [] Kind(tok) = "PutChar" -> p.putchar
      [] Kind(tok) = "GetChar" -> p.getchar

\* a text with the number n in the place of every placeholder
Substituted(text, n) ==
    Flatten([i \in 1..Len(text) |->
                IF text[i] = "{}" THEN to_string(n) ELSE <<text[i]>>])

\* the block the claim gives a token: its kind's template, with the payload
\* substituted when the kind has one
BlockOf(p, tok) ==
    IF Kind(tok) \in {"PutChar", "GetChar"} THEN join(TemplateOf(p, tok))
    ELSE Substituted(join(TemplateOf(p, tok)), Payload(tok))

\* the digits a line of generate_asm ends with, after its fixed text (and
\* before the colon of a label)
DigitsOf(line) ==
    IF line[Len(line)] = ":" THEN SubSeq(line, 2, Len(line) - 1)
    ELSE SubSeq(line, 2, Len(line))

\* the block of generate_asm for a token names the token's payload
NamesPayload(tok) ==
    LET block == token_lines(tok)
    IN CASE IsMag(tok) ->
              Len(block) = 1 /\ DigitsOf(block[1]) = to_string(Payload(tok))
         [] Kind(tok) \in {"LoopStart", "LoopEnd"} ->
              /\ Len(block) = 3
              /\ DigitsOf(block[2]) = to_string(Payload(tok))
              /\ DigitsOf(block[3]) = to_string(Payload(tok))
         [] OTHER -> TRUE

\* C9: generate_asm emits the setup text, then one block per token of the
\* IR in IR order, then the teardown text, and nothing else (the empty IR
\* gives setup and teardown alone); a token's block is the block of its
\* kind with the token's magnitude or loop id substituted, in generate_asm
\* and in Profile::get_asm, and the fixed block for PutChar and GetChar, so
\* the blocks of a LoopStart and a LoopEnd of one id carry that id.
C9_GeneratorOrder ==
    pc = "done" =>
        IF generator = "profile"
        THEN /\ lines.setup = join(profile.setup)
             /\ lines.teardown = join(profile.teardown)
             /\ Len(lines.blocks) = Len(tokens)
             /\ \A i \in 1..Len(tokens) :
                  /\ lines.blocks[i] = BlockOf(profile, tokens[i])
                  /\ Kind(tokens[i]) \notin {"PutChar", "GetChar"} =>
                       \A m \in 1..Len(lines.blocks[i]) :
                           lines.blocks[i][m] # "{}"
        ELSE /\ lines = setup_lines
                          \o Flatten([i \in 1..Len(tokens) |->
                                         token_lines(tokens[i])])
                          \o teardown_lines
             /\ \A i \in 1..Len(tokens) : NamesPayload(tokens[i])
             /\ tokens = <<>> =>
                  Len(lines) = Len(setup_lines) + Len(teardown_lines)

\* generate_asm has emitted the blocks of a loop between setup and teardown
C9_Witness ==
    /\ pc = "done"
    /\ generator = "generate_asm"
    /\ tokens = <<LoopStart(1), Sub(2), LoopEnd(1)>>
    /\ Len(lines) = 16
    /\ lines[9] = <<"lbl_s_", "1", ":">>
    /\ lines[10] = <<"\tsub byte [edi], ", "2">>
    /\ lines[12] = <<"\tjnz lbl_s_", "1">>

\* ---- C10 ----
\* C10: in generate_bin the linker reads the object file only after the
\* assembler has finished writing it, the temporary files are removed only
\* after the assembler and the linker have finished, and when generate_bin
\* returns Ok the final binary has been produced from the assembly text.
C10_ToolchainOrdered ==
    /\ ld_pc \in {"linking", "exited", "failed"} => nasm_pc = "exited"
    /\ bin_pc \in {"remove_obj", "ok"} => nasm_pc \in {"exited", "failed"}
    /\ bin_pc = "ok" =>
         /\ ld_pc \in {"exited", "failed"}
         /\ out_file = BinFile(ObjFile(lines))
=============================================================================
